---------------------------- MODULE Spec2Model ----------------------------
(***************************************************************************)
(* A model of mouce's uinput backend (src/nix/uinput.rs) and of the evdev  *)
(* listener it starts on the first hook (src/nix/mod.rs).                  *)
(*                                                                         *)
(* The virtual device is a handle on /dev/uinput: every public action is a *)
(* sequence of write(2) calls of one input_event each.  The listener is a  *)
(* set of reader threads, one per discovered device file, that forward raw *)
(* events on an mpsc channel to one dispatcher thread, which classifies    *)
(* them and invokes the registered callbacks under the registry mutex.     *)
(***************************************************************************)
EXTENDS Integers, Sequences, FiniteSets, TLC

(***************************************************************************)
(* Bounds of the model.                                                    *)
(***************************************************************************)
\* public actions performed on one device instance before it is dropped
MaxCalls == 2
\* hook calls on one instance
MaxHooks == 2
\* raw events the reader threads read in one run
MaxEvents == 2
\* start_nix_listener calls on one instance
MaxStarts == 2
\* entries the two globs yield
MaxLinks == 2
\* raw events read in a run that classifies every kind of raw event
MaxClassified == 1

(***************************************************************************)
(* The kernel's numbers (uinput.rs, lines 301-321).                        *)
(***************************************************************************)
UI_DEV_DESTROY == 21762
EV_SYN == 0
EV_KEY == 1
EV_REL == 2
EV_ABS == 3
SYN_REPORT == 0
REL_X == 0
REL_Y == 1
ABS_X == 0
ABS_Y == 1
REL_WHEEL == 8
REL_HWHEEL == 6
\* 0x110 .. 0x117
BTN_LEFT == 272
BTN_RIGHT == 273
BTN_MIDDLE == 274
BTN_SIDE == 275
BTN_EXTRA == 276
BTN_FORWARD == 277
BTN_BACK == 278
BTN_TASK == 279

MouseButton == {"Left", "Right", "Middle", "Side", "Extra", "Forward", "Back", "Task"}
ScrollDirection == {"Up", "Down", "Left", "Right"}

Pow2(n) == 2 ^ n
\* i32::MIN and i32::MAX, written so that no intermediate value leaves 32 bits
I32Min == -2147483647 - 1
I32Max == 2147483647

(***************************************************************************)
(* x as c_ushort: the low 16 bits.                                         *)
(***************************************************************************)
AsUShort(x) == x % 65536

(***************************************************************************)
(* x as f32, for an i32 x: the nearest value with a 24-bit significand,    *)
(* ties to even.  The result is the pair [m, e] standing for m * 2^e.      *)
(***************************************************************************)
F32Exp(x) ==
  IF \E k \in 0..6 : -Pow2(24 + k) < x /\ x < Pow2(24 + k)
  THEN CHOOSE k \in 0..6 : /\ -Pow2(24 + k) < x /\ x < Pow2(24 + k)
                           /\ \A j \in 0..(k - 1) : ~(-Pow2(24 + j) < x /\ x < Pow2(24 + j))
  ELSE 7

RoundHalfEven(x, u) ==
  LET q == x \div u
      r == x % u
  IN  IF 2 * r > u THEN q + 1
      ELSE IF 2 * r < u THEN q
      ELSE IF q % 2 = 0 THEN q ELSE q + 1

AsF32(x) ==
  LET k == F32Exp(x)
  IN  [m |-> RoundHalfEven(x, Pow2(k)), e |-> k]

\* f / 2. : exact, the exponent drops by one
F32Half(f) == [m |-> f.m, e |-> f.e - 1]

\* f.ceil() as c_int, for |f| <= 2^30 (no saturation is reached from an i32 halved)
F32CeilAsInt(f) ==
  IF f.e >= 0 THEN f.m * Pow2(f.e) ELSE (f.m + 1) \div 2

\* x / 2 on integers, which rounds toward zero
TruncHalf(x) == (x \div 2) + (IF x < 0 /\ x % 2 = 1 THEN 1 ELSE 0)

\* (x as f32 / 2.).ceil() as c_int
CeilHalf(x) == F32CeilAsInt(F32Half(AsF32(x)))

(***************************************************************************)
(* A usize is the pair [hi, lo] standing for hi * 2^31 + lo, 0 <= lo < 2^31.*)
(* usize as c_int keeps the low 32 bits, reinterpreted as signed: bit 31   *)
(* is the low bit of hi.                                                   *)
(***************************************************************************)
USize(hi, lo) == [hi |-> hi, lo |-> lo]
AsCInt(x) == IF x.hi % 2 = 0 THEN x.lo ELSE x.lo + I32Min

(***************************************************************************)
(* write(2) of one input_event: the whole record, fewer bytes, or -1.      *)
(***************************************************************************)
WriteOutcome == {"full", "short", "err"}
\* the longest sequence of writes of one public action (click_button)
WritesPerCall == 4
\* the outcomes of the writes of one call: all whole, or one of them failing (a call
\* stops at its first failed write, so what later writes would give is never seen)
Outcomes(n) ==
  { [i \in 1..WritesPerCall |-> IF i = k THEN f ELSE "full"] :
      k \in 0..n, f \in WriteOutcome \ {"full"} }

(***************************************************************************)
(* A call in progress: the writes it has attempted so far, the outcomes    *)
(* the kernel will give to its next writes, and its result so far.         *)
(***************************************************************************)
Call(outs) == [trace |-> <<>>, outs |-> outs, res |-> "Ok"]

\* an emit that takes only a return of -1 for a failure
emit_OnlyMinusOne(c, type, code, value) ==
  LET o == c.outs[Len(c.trace) + 1]
      ev == [type |-> AsUShort(type), code |-> AsUShort(code), value |-> value, out |-> o]
  IN  [c EXCEPT !.trace = Append(c.trace, ev),
                !.res = IF o = "err" THEN "Err" ELSE "Ok"]

emit(c, type, code, value) ==
  LET o == c.outs[Len(c.trace) + 1]
      ev == [type |-> AsUShort(type), code |-> AsUShort(code), value |-> value, out |-> o]
  IN  [c EXCEPT !.trace = Append(c.trace, ev),
                !.res = IF o = "full" THEN "Ok" ELSE "Err"]

syncronize(c) == emit(c, EV_SYN, SYN_REPORT, 0)

move_relative_(c, x, y) ==
  LET c1 == emit(c, EV_REL, REL_X, CeilHalf(x))
  IN  IF c1.res # "Ok" THEN c1
      ELSE LET c2 == emit(c1, EV_REL, REL_Y, CeilHalf(y))
           IN  IF c2.res # "Ok" THEN c2 ELSE syncronize(c2)

map_btn(button) ==
  CASE button = "Left" -> BTN_LEFT
    [] button = "Right" -> BTN_RIGHT
    [] button = "Middle" -> BTN_MIDDLE
    [] button = "Side" -> BTN_SIDE
    [] button = "Extra" -> BTN_EXTRA
    [] button = "Forward" -> BTN_FORWARD
    [] button = "Back" -> BTN_BACK
    [] button = "Task" -> BTN_TASK

move_to(c, x, y) ==
  LET c1 == emit(c, EV_ABS, ABS_X, AsCInt(x))
  IN  IF c1.res # "Ok" THEN c1
      ELSE LET c2 == emit(c1, EV_ABS, ABS_Y, AsCInt(y))
           IN  IF c2.res # "Ok" THEN c2 ELSE syncronize(c2)

move_relative(c, x_offset, y_offset) == move_relative_(c, x_offset, y_offset)

press_button(c, button) ==
  LET c1 == emit(c, EV_KEY, map_btn(button), 1)
  IN  IF c1.res # "Ok" THEN c1 ELSE syncronize(c1)

release_button(c, button) ==
  LET c1 == emit(c, EV_KEY, map_btn(button), 0)
  IN  IF c1.res # "Ok" THEN c1 ELSE syncronize(c1)

\* a click that stops after the press
click_button_PressOnly(c, button) == press_button(c, button)

click_button(c, button) ==
  LET c1 == press_button(c, button)
  IN  IF c1.res # "Ok" THEN c1 ELSE release_button(c1, button)

\* a scroll whose horizontal directions carry each other's sign
ScrollCode_HorizontalSwapped(direction) ==
  CASE direction = "Up" -> <<REL_WHEEL, 1>>
    [] direction = "Down" -> <<REL_WHEEL, -1>>
    [] direction = "Left" -> <<REL_HWHEEL, 1>>
    [] direction = "Right" -> <<REL_HWHEEL, -1>>

ScrollCode(direction) ==
  CASE direction = "Up" -> <<REL_WHEEL, 1>>
    [] direction = "Down" -> <<REL_WHEEL, -1>>
    [] direction = "Left" -> <<REL_HWHEEL, -1>>
    [] direction = "Right" -> <<REL_HWHEEL, 1>>

scroll_wheel(c, direction) ==
  LET c1 == emit(c, EV_REL, ScrollCode(direction)[1], ScrollCode(direction)[2])
  IN  IF c1.res # "Ok" THEN c1 ELSE syncronize(c1)

\* unimplemented!(): the call panics
get_position(c) == [c EXCEPT !.res = "Panic"]

(***************************************************************************)
(* Paths.  A path is the sequence of its components; an absolute one starts *)
(* with "/".  The devices are /dev/input/event0 and /dev/input/event1; the  *)
(* two globbed directories are /dev/input/by-id and /dev/input/by-path.     *)
(***************************************************************************)
InputDir == <<"/", "dev", "input">>
DevNodes == {InputDir \o <<"event0">>, InputDir \o <<"event1">>}
GlobDirs == {InputDir \o <<"by-id">>, InputDir \o <<"by-path">>}

IsAbsolute(p) == Len(p) > 0 /\ p[1] = "/"

\* PathBuf::pop: the path without its last component
Pop(p) == SubSeq(p, 1, Len(p) - 1)

\* PathBuf::push: an absolute argument replaces the path, a relative one is appended
Push(p, q) == IF IsAbsolute(q) THEN q ELSE p \o q

\* the path with every "." dropped and every ".." applied to what precedes it
RECURSIVE Normalize(_, _)
Normalize(done, rest) ==
  IF rest = <<>> THEN done
  ELSE LET h == Head(rest)
       IN  IF h = "." THEN Normalize(done, Tail(rest))
           ELSE IF h = ".." THEN Normalize(IF Len(done) > 1 THEN Pop(done) ELSE done, Tail(rest))
           ELSE Normalize(Append(done, h), Tail(rest))

\* the device file a path names, as the kernel resolves it on open
DeviceOf(p) == Normalize(<<>>, p)

\* std::fs::canonicalize: the resolved path, or an error when nothing is there
canonicalize(p) ==
  LET n == Normalize(<<>>, p)
  IN  IF n \in DevNodes \cup GlobDirs THEN [ok |-> TRUE, path |-> n]
      ELSE [ok |-> FALSE, path |-> n]

\* lines 94-106: an entry that is a link is replaced by its target
ResolveLink(entry) ==
  IF ~entry.islink THEN [ok |-> TRUE, path |-> entry.path]
  ELSE IF IsAbsolute(entry.target) THEN [ok |-> TRUE, path |-> entry.target]
  ELSE canonicalize(Push(Pop(entry.path), entry.target))

\* previous_paths.contains(&path)
Contains(paths, path) == \E i \in 1..Len(paths) : paths[i] = path

\* File::options().read(true).open(path)
OpenOk(path, denied) == DeviceOf(path) \in DevNodes \ denied

(***************************************************************************)
(* The discovery loop of start_nix_listener (lines 67-135), from entry i   *)
(* on: the reader threads spawned, in order, and whether the loop ended    *)
(* without an error.                                                       *)
(***************************************************************************)
RECURSIVE DiscoveryLoop(_, _, _, _, _)
DiscoveryLoop(entries, i, previous_paths, spawned, denied) ==
  IF i > Len(entries) THEN [ok |-> TRUE, spawned |-> spawned]
  ELSE LET file == ResolveLink(entries[i])
       IN  IF ~file.ok THEN [ok |-> FALSE, spawned |-> spawned]
           ELSE IF Contains(previous_paths, file.path)
                THEN DiscoveryLoop(entries, i + 1, previous_paths, spawned, denied)
           ELSE IF ~OpenOk(file.path, denied) THEN [ok |-> FALSE, spawned |-> spawned]
           ELSE DiscoveryLoop(entries, i + 1, Append(previous_paths, file.path),
                              Append(spawned, file.path), denied)

\* start_nix_listener: the dispatcher is spawned only when the loop returned no error
start_nix_listener(entries, denied) ==
  LET r == DiscoveryLoop(entries, 1, <<>>, <<>>, denied)
  IN  [ok |-> r.ok, spawned |-> r.spawned, dispatcher |-> r.ok]

(***************************************************************************)
(* The dispatcher's classification of a raw event (lines 142-187).         *)
(***************************************************************************)
Raw(type, code, value) == [type |-> type, code |-> code, value |-> value]
Discard == [kind |-> "Discard"]
Press(b) == [kind |-> "Press", button |-> b]
Release(b) == [kind |-> "Release", button |-> b]
Scroll(d) == [kind |-> "Scroll", dir |-> d]
RelativeMove(dx, dy) == [kind |-> "RelativeMove", dx |-> dx, dy |-> dy]

\* lines 146-162: a key event
ClassifyKey(code, val) ==
  IF code \notin {BTN_LEFT, BTN_RIGHT, BTN_MIDDLE} THEN Discard
  ELSE LET button == IF code = BTN_LEFT THEN "Left"
                     ELSE IF code = BTN_RIGHT THEN "Right"
                     ELSE "Middle"
       IN  IF val = 1 THEN Press(button) ELSE Release(button)

\* a relative event, with the wheel's sign test off by one
ClassifyRel_ZeroIsUp(code, val) ==
  IF code = REL_WHEEL THEN Scroll(IF val >= 0 THEN "Up" ELSE "Down")
  ELSE IF code = REL_HWHEEL THEN Scroll(IF val > 0 THEN "Right" ELSE "Left")
  ELSE IF code = REL_X THEN RelativeMove(val, 0)
  ELSE IF code = REL_Y THEN RelativeMove(0, val)
  ELSE Discard

\* lines 163-183: a relative event
ClassifyRel(code, val) ==
  IF code = REL_WHEEL THEN Scroll(IF val > 0 THEN "Up" ELSE "Down")
  ELSE IF code = REL_HWHEEL THEN Scroll(IF val > 0 THEN "Right" ELSE "Left")
  ELSE IF code = REL_X THEN RelativeMove(val, 0)
  ELSE IF code = REL_Y THEN RelativeMove(0, val)
  ELSE Discard

Classify(received) ==
  IF received.type = EV_KEY THEN ClassifyKey(received.code, received.value)
  ELSE IF received.type = EV_REL THEN ClassifyRel(received.code, received.value)
  ELSE Discard

(***************************************************************************)
(* The registry: HashMap<CallbackId, Box<dyn Fn>>, as a function from the  *)
(* ids present to the callbacks.  A callback is what it does when invoked: *)
(* it returns, or it panics.                                               *)
(***************************************************************************)
CallbackKinds == {"ret", "panic"}
EmptyMap == [id \in {} |-> "ret"]
MapInsert(map, id, cb) == [k \in DOMAIN map \cup {id} |-> IF k = id THEN cb ELSE map[k]]
MapRemove(map, id) == [k \in DOMAIN map \ {id} |-> map[k]]
Ids == 0..MaxHooks
\* the dispatcher has received nothing yet
NoRaw == [type |-> -1, code |-> -1, value |-> 0]

(***************************************************************************)
(* The inputs of the public actions.                                       *)
(***************************************************************************)
\* pixel deltas: the small ones, and those around the 24-bit significand
Deltas ==
  (-3..3) \cup {Pow2(24) - 1, Pow2(24), Pow2(24) + 1, Pow2(24) + 2, Pow2(24) + 3,
                -Pow2(24) - 1, -Pow2(24) - 3, Pow2(25) + 2, Pow2(30) + 64,
                I32Max, I32Min}
\* the pairs handed to move_relative: every delta on each axis, and a few on both
DeltaPairs ==
  { <<d, 0>> : d \in Deltas } \cup { <<0, d>> : d \in Deltas }
    \cup { <<-1, -1>>, <<3, -3>>, <<Pow2(24) + 1, -Pow2(24) - 3>> }
\* target coordinates: small ones, and those at and beyond 2^31
Coords == {USize(0, 0), USize(0, 1), USize(0, I32Max), USize(1, 0), USize(2, 5)}
\* the pairs handed to move_to
CoordPairs ==
  { <<c, USize(0, 0)>> : c \in Coords } \cup { <<USize(0, 1), c>> : c \in Coords }

(***************************************************************************)
(* The state.                                                              *)
(***************************************************************************)
VARIABLES
  alive,            \* the UInputMouseManager has not been dropped
  ncalls,           \* public actions performed so far
  fdtrace,          \* the system calls made on the control descriptor since construction
  lastOp,           \* the last public call: its name, arguments, result and writes
  is_listening,     \* UInputMouseManager.is_listening
  callback_counter, \* UInputMouseManager.callback_counter
  callbacks,        \* the registry: callback id -> callback
  poisoned,         \* the registry mutex is poisoned
  dirEntries,       \* what the two globs yield, in order
  starts,           \* start_nix_listener calls so far
  readers,          \* the reader threads, in the order they were spawned
  disp,             \* the dispatcher thread
  chan,             \* the mpsc channel: raw events sent and not yet received
  nread,            \* raw events read by the readers so far
  received,         \* callback id -> the MouseEvents its callback was invoked with
  unhooked,         \* the ids for which unhook returned Ok
  hooked            \* the ids hook returned, in the order of the calls

dvars == <<alive, ncalls, fdtrace, lastOp>>
lvars == <<is_listening, callback_counter, callbacks, poisoned, dirEntries, starts,
           readers, disp, chan, nread, received, unhooked, hooked>>
vars == <<alive, ncalls, fdtrace, lastOp, is_listening, callback_counter, callbacks,
          poisoned, dirEntries, starts, readers, disp, chan, nread, received, unhooked,
          hooked>>

(***************************************************************************)
(* The public actions that write events.                                   *)
(***************************************************************************)
\* what a call leaves on the control descriptor: one write per attempted event
Syscalls(trace) == [i \in 1..Len(trace) |-> [sys |-> "write", ok |-> trace[i].out = "full"]]

DeviceCall(op, args, c) ==
  /\ alive
  /\ ncalls < MaxCalls
  /\ ncalls' = ncalls + 1
  /\ fdtrace' = fdtrace \o Syscalls(c.trace)
  /\ lastOp' = [op |-> op, args |-> args, res |-> c.res, trace |-> c.trace]
  /\ UNCHANGED <<alive, lvars>>

MoveTo ==
  \E p \in CoordPairs, outs \in Outcomes(3) :
    DeviceCall("move_to", p, move_to(Call(outs), p[1], p[2]))

MoveRelative ==
  \E d \in DeltaPairs, outs \in Outcomes(3) :
    DeviceCall("move_relative", d, move_relative(Call(outs), d[1], d[2]))

GetPosition ==
  \E outs \in Outcomes(0) :
    DeviceCall("get_position", <<>>, get_position(Call(outs)))

PressButton ==
  \E b \in MouseButton, outs \in Outcomes(2) :
    DeviceCall("press_button", <<b>>, press_button(Call(outs), b))

ReleaseButton ==
  \E b \in MouseButton, outs \in Outcomes(2) :
    DeviceCall("release_button", <<b>>, release_button(Call(outs), b))

ClickButton ==
  \E b \in MouseButton, outs \in Outcomes(4) :
    DeviceCall("click_button", <<b>>, click_button(Call(outs), b))

ScrollWheel ==
  \E d \in ScrollDirection, outs \in Outcomes(2) :
    DeviceCall("scroll_wheel", <<d>>, scroll_wheel(Call(outs), d))

(***************************************************************************)
(* Drop: drop() issues UI_DEV_DESTROY, whose result is not looked at, and  *)
(* then the fields are dropped, which closes uinput_file.                  *)
(***************************************************************************)
\* a drop that only lets the file close
DropSyscalls_CloseOnly(ok) == <<[sys |-> "close"]>>

DropSyscalls(ok) == <<[sys |-> "ioctl", req |-> UI_DEV_DESTROY, ok |-> ok], [sys |-> "close"]>>

Drop ==
  /\ alive
  /\ alive' = FALSE
  /\ \E ok \in BOOLEAN :
       /\ fdtrace' = fdtrace \o DropSyscalls(ok)
       /\ lastOp' = [op |-> "drop", args |-> <<>>, res |-> "Ok", trace |-> <<>>]
  /\ UNCHANGED <<ncalls, lvars>>


(***************************************************************************)
(* What the globs can yield: the by-id matches, then the by-path matches,  *)
(* every entry a symbolic link whose target is relative or absolute.       *)
(***************************************************************************)
LinkTargets ==
  { <<"..", "event0">>, <<"..", "event1">>,
    InputDir \o <<"event0">>,
    InputDir \o <<"by-id", "..", "event0">>,
    <<"..", "gone">> }

Entry(dir, i, target) ==
  [path |-> InputDir \o <<dir, ToString(i)>>, islink |-> TRUE, target |-> target]

DirOf(entry) == entry.path[4]

Filesystems ==
  { es \in UNION { [1..n -> { Entry(d, 0, t) : d \in {"by-id", "by-path"}, t \in LinkTargets }]
                   : n \in 0..MaxLinks } :
      \A i \in 1..Len(es), j \in 1..Len(es) :
        i < j => ~(DirOf(es[i]) = "by-path" /\ DirOf(es[j]) = "by-id") }

Numbered(es) == [i \in 1..Len(es) |-> Entry(DirOf(es[i]), i, es[i].target)]

\* two mice, each linked once
TwoMice == <<Entry("by-id", 1, <<"..", "event0">>), Entry("by-path", 2, <<"..", "event1">>)>>

(***************************************************************************)
(* Init: the state UInputMouseManager::new returns (lines 37-45, 131).     *)
(***************************************************************************)
InitManager ==
  /\ alive = TRUE
  /\ ncalls = 0
  /\ fdtrace = <<>>
  /\ lastOp = [op |-> "new", args |-> <<>>, res |-> "Ok", trace |-> <<>>]
  /\ is_listening = FALSE
  /\ callback_counter = 0
  /\ callbacks = EmptyMap
  /\ poisoned = FALSE
  /\ starts = 0
  /\ readers = <<>>
  /\ disp = [pc |-> "none", raw |-> NoRaw, ev |-> Discard, pending |-> EmptyMap]
  /\ chan = <<>>
  /\ nread = 0
  /\ received = [id \in Ids |-> <<>>]
  /\ unhooked = {}
  /\ hooked = <<>>

Init == InitManager /\ dirEntries = TwoMice

InitDiscovery == InitManager /\ dirEntries \in { Numbered(es) : es \in Filesystems }

(***************************************************************************)
(* hook, unhook, unhook_all (lines 263-288).  Each takes the registry lock, *)
(* so none runs while the dispatcher holds it.                             *)
(***************************************************************************)
\* a dispatcher that does not keep the lock while it invokes the callbacks
LockFree_NotHeld == TRUE

LockFree == disp.pc # "invoke"

Result(op, args, res) == [op |-> op, args |-> args, res |-> res, trace |-> <<>>]

Spawned(paths, n) == [i \in 1..Len(paths) |-> [path |-> paths[i], start |-> n]]

\* a registration that leaves the counter where it was
Register_NoIncrement(cb) ==
  IF poisoned
  THEN /\ lastOp' = Result("hook", <<cb>>, "Panic")
       /\ UNCHANGED <<callbacks, callback_counter, hooked>>
  ELSE /\ callbacks' = MapInsert(callbacks, callback_counter, cb)
       /\ UNCHANGED callback_counter
       /\ hooked' = Append(hooked, callback_counter)
       /\ lastOp' = [Result("hook", <<cb>>, "Ok") EXCEPT !.args = <<cb, callback_counter>>]

\* lines 269-272, after the listener is known to run
Register(cb) ==
  IF poisoned
  THEN /\ lastOp' = Result("hook", <<cb>>, "Panic")
       /\ UNCHANGED <<callbacks, callback_counter, hooked>>
  ELSE /\ callbacks' = MapInsert(callbacks, callback_counter, cb)
       /\ callback_counter' = callback_counter + 1
       /\ hooked' = Append(hooked, callback_counter)
       /\ lastOp' = [Result("hook", <<cb>>, "Ok") EXCEPT !.args = <<cb, callback_counter>>]

\* a hook that marks the listener as started before the start has succeeded
Hook_MarksStartedFirst(cb, denied) ==
  /\ alive
  /\ LockFree
  /\ callback_counter < MaxHooks
  /\ IF is_listening
     THEN /\ Register(cb)
          /\ UNCHANGED <<is_listening, starts, readers, disp>>
     ELSE /\ starts < MaxStarts
          /\ LET r == start_nix_listener(dirEntries, denied)
             IN  /\ starts' = starts + 1
                 /\ readers' = readers \o Spawned(r.spawned, starts + 1)
                 /\ IF r.ok
                    THEN /\ disp' = [disp EXCEPT !.pc = "recv"]
                         /\ is_listening' = TRUE
                         /\ Register(cb)
                    ELSE /\ lastOp' = Result("hook", <<cb>>, "Err")
                         /\ is_listening' = TRUE
                         /\ UNCHANGED <<disp, callbacks, callback_counter, hooked>>
  /\ UNCHANGED <<alive, ncalls, fdtrace, poisoned, dirEntries, chan, nread, received, unhooked>>

Hook(cb, denied) ==
  /\ alive
  /\ LockFree
  /\ callback_counter < MaxHooks
  /\ IF is_listening
     THEN /\ Register(cb)
          /\ UNCHANGED <<is_listening, starts, readers, disp>>
     ELSE /\ starts < MaxStarts
          /\ LET r == start_nix_listener(dirEntries, denied)
             IN  /\ starts' = starts + 1
                 /\ readers' = readers \o Spawned(r.spawned, starts + 1)
                 /\ IF r.ok
                    THEN /\ disp' = [disp EXCEPT !.pc = "recv"]
                         /\ is_listening' = TRUE
                         /\ Register(cb)
                    ELSE /\ lastOp' = Result("hook", <<cb>>, "Err")
                         /\ UNCHANGED <<disp, is_listening, callbacks, callback_counter,
                                        hooked>>
  /\ UNCHANGED <<alive, ncalls, fdtrace, poisoned, dirEntries, chan, nread, received, unhooked>>

Unhook(callback_id) ==
  /\ alive
  /\ LockFree
  /\ IF poisoned
     THEN /\ lastOp' = Result("unhook", <<callback_id>>, "Panic")
          /\ UNCHANGED <<callbacks, unhooked>>
     ELSE /\ callbacks' = MapRemove(callbacks, callback_id)
          /\ IF callback_id \in DOMAIN callbacks
             THEN /\ lastOp' = Result("unhook", <<callback_id>>, "Ok")
                  /\ unhooked' = unhooked \cup {callback_id}
             ELSE /\ lastOp' = Result("unhook", <<callback_id>>, "NotFound")
                  /\ UNCHANGED unhooked
  /\ UNCHANGED <<alive, ncalls, fdtrace, is_listening, callback_counter, poisoned,
                 dirEntries, starts, readers, disp, chan, nread, received, hooked>>

UnhookAll ==
  /\ alive
  /\ LockFree
  /\ IF poisoned
     THEN /\ lastOp' = Result("unhook_all", <<>>, "Panic")
          /\ UNCHANGED callbacks
     ELSE /\ callbacks' = EmptyMap
          /\ lastOp' = Result("unhook_all", <<>>, "Ok")
  /\ UNCHANGED <<alive, ncalls, fdtrace, is_listening, callback_counter, poisoned,
                 dirEntries, starts, readers, disp, chan, nread, received, unhooked,
                 hooked>>

(***************************************************************************)
(* A reader thread (lines 120-134): read one record, send it.  The send    *)
(* reaches the channel only while its receiver lives: the receiver of a    *)
(* start that returned an error is dropped with it, and the dispatcher's   *)
(* is dropped when the dispatcher dies.                                    *)
(***************************************************************************)
ReceiverLives(reader) == reader.start = starts /\ disp.pc \in {"recv", "invoke"}

\* one turn of reader i's loop, the read filling the buffer with e
ReaderLoop(i, e, limit) ==
  /\ nread < limit
  /\ nread' = nread + 1
  /\ chan' = IF ReceiverLives(readers[i]) THEN Append(chan, e) ELSE chan
  /\ UNCHANGED <<dvars, is_listening, callback_counter, callbacks, poisoned, dirEntries,
                 starts, readers, disp, received, unhooked, hooked>>

ReaderRead(events, limit) ==
  \E i \in 1..Len(readers), e \in events : ReaderLoop(i, e, limit)

\* the record a reader gets when each mouse moves along an axis of its own, event0
\* along x and event1 along y, by the ordinal of the read
Moved(reader) ==
  Raw(EV_REL, IF DeviceOf(reader.path) = InputDir \o <<"event0">> THEN REL_X ELSE REL_Y,
      nread + 1)

ReaderReadMoved(limit) ==
  \E i \in 1..Len(readers) : ReaderLoop(i, Moved(readers[i]), limit)

(***************************************************************************)
(* The dispatcher thread (lines 139-194).                                  *)
(***************************************************************************)
\* a dispatcher that takes the newest record of the channel
DispRecv_TakesNewest ==
  /\ disp.pc = "recv"
  /\ chan # <<>>
  /\ chan' = SubSeq(chan, 1, Len(chan) - 1)
  /\ LET mouse_event == Classify(chan[Len(chan)])
     IN  IF mouse_event = Discard
         THEN disp' = [disp EXCEPT !.raw = chan[Len(chan)], !.ev = Discard]
         ELSE disp' = [pc |-> "invoke", raw |-> chan[Len(chan)], ev |-> mouse_event,
                       pending |-> callbacks]
  /\ UNCHANGED <<dvars, is_listening, callback_counter, callbacks, poisoned, dirEntries,
                 starts, readers, nread, received, unhooked, hooked>>

\* for received in rx, up to the lock: unknown events are skipped
DispRecv ==
  /\ disp.pc = "recv"
  /\ chan # <<>>
  /\ chan' = Tail(chan)
  /\ LET mouse_event == Classify(Head(chan))
     IN  IF mouse_event = Discard
         THEN disp' = [disp EXCEPT !.raw = Head(chan), !.ev = Discard]
         ELSE disp' = [pc |-> "invoke", raw |-> Head(chan), ev |-> mouse_event,
                       pending |-> callbacks]
  /\ UNCHANGED <<dvars, is_listening, callback_counter, callbacks, poisoned, dirEntries,
                 starts, readers, nread, received, unhooked, hooked>>

\* what is left of the iteration over the map's values after the one at id
Rest(pending, id) == [k \in DOMAIN pending \ {id} |-> pending[k]]

\* callback(&mouse_event), for the next callback in the map's order
DispInvoke ==
  /\ disp.pc = "invoke"
  /\ \E id \in DOMAIN disp.pending :
       /\ received' = [received EXCEPT ![id] = Append(@, disp.ev)]
       /\ IF disp.pending[id] = "panic"
          THEN /\ disp' = [disp EXCEPT !.pc = "dead", !.pending = EmptyMap]
               /\ poisoned' = TRUE
               /\ chan' = <<>>
          ELSE /\ disp' = [disp EXCEPT !.pending = Rest(@, id)]
               /\ UNCHANGED <<poisoned, chan>>
  /\ UNCHANGED <<dvars, is_listening, callback_counter, callbacks, dirEntries, starts,
                 readers, nread, unhooked, hooked>>

\* the end of the for loop over the registry: the guard is dropped
DispRelease ==
  /\ disp.pc = "invoke"
  /\ DOMAIN disp.pending = {}
  /\ disp' = [disp EXCEPT !.pc = "recv"]
  /\ UNCHANGED <<dvars, is_listening, callback_counter, callbacks, poisoned, dirEntries,
                 starts, readers, chan, nread, received, unhooked, hooked>>

\* the end of for received in rx: every Sender is gone (the function's own tx is
\* dropped when start_nix_listener returns, the clones live in the reader threads), so
\* the receive fails and the thread returns
SendersOf(start) == { i \in 1..Len(readers) : readers[i].start = start }

DispExit ==
  /\ disp.pc = "recv"
  /\ chan = <<>>
  /\ SendersOf(starts) = {}
  /\ disp' = [disp EXCEPT !.pc = "done"]
  /\ UNCHANGED <<dvars, is_listening, callback_counter, callbacks, poisoned, dirEntries,
                 starts, readers, chan, nread, received, unhooked, hooked>>

(***************************************************************************)
(* The specifications.                                                     *)
(***************************************************************************)
\* the events the mice of the model produce
SomeRaw ==
  { Raw(EV_REL, REL_X, 5), Raw(EV_KEY, BTN_RIGHT, 1), Raw(EV_SYN, SYN_REPORT, 0) }

\* the virtual device: the public actions that write, and the drop
Next ==
  \/ MoveTo
  \/ MoveRelative
  \/ GetPosition
  \/ PressButton
  \/ ReleaseButton
  \/ ClickButton
  \/ ScrollWheel
  \/ Drop

Spec == Init /\ [][Next]_vars

\* the listener: the registry calls against the reader and dispatcher threads
NextListener ==
  \/ \E cb \in CallbackKinds, denied \in SUBSET DevNodes : Hook(cb, denied)
  \/ \E id \in Ids : Unhook(id)
  \/ UnhookAll
  \/ ReaderRead(SomeRaw, MaxEvents)
  \/ DispRecv
  \/ DispInvoke
  \/ DispRelease

SpecListener == Init /\ [][NextListener]_vars

\* the discovery: the registry calls over every filesystem of the model
NextDiscovery ==
  \/ \E cb \in CallbackKinds, denied \in SUBSET DevNodes : Hook(cb, denied)
  \/ \E id \in Ids : Unhook(id)
  \/ UnhookAll
  \/ DispExit

SpecDiscovery == InitDiscovery /\ [][NextDiscovery]_vars

\* the classification: one returning callback, and every kind of raw event
AllRaw ==
  { Raw(t, c, v) : t \in {EV_SYN, EV_KEY, EV_REL, EV_ABS},
                   c \in {REL_X, REL_Y, 2, REL_HWHEEL, REL_WHEEL,
                          BTN_LEFT, BTN_RIGHT, BTN_MIDDLE, BTN_SIDE, BTN_TASK + 1},
                   v \in {-2, 0, 1, 3, 5} }

NextClassify ==
  \/ callback_counter = 0 /\ Hook("ret", {})
  \/ ReaderRead(AllRaw, MaxClassified)
  \/ DispRecv
  \/ DispInvoke
  \/ DispRelease

SpecClassify == Init /\ [][NextClassify]_vars


(***************************************************************************)
(* Properties of the virtual device, checked under Spec.                   *)
(***************************************************************************)
Written(type, code, value) == [type |-> type, code |-> code, value |-> value, out |-> "full"]
AllWritten(trace) == \A i \in 1..Len(trace) : trace[i].out = "full"

\* C1: a click_button(b) whose writes all succeed writes exactly KEY(code(b), 1),
\* SYN_REPORT, KEY(code(b), 0), SYN_REPORT, in this order, and returns Ok.
C1_ClickWritesPressSyncReleaseSync ==
  (lastOp.op = "click_button" /\ AllWritten(lastOp.trace)) =>
    /\ lastOp.res = "Ok"
    /\ lastOp.trace = << Written(EV_KEY, map_btn(lastOp.args[1]), 1),
                         Written(EV_SYN, SYN_REPORT, 0),
                         Written(EV_KEY, map_btn(lastOp.args[1]), 0),
                         Written(EV_SYN, SYN_REPORT, 0) >>

C1_Witness ==
  /\ lastOp.op = "click_button"
  /\ lastOp.args = <<"Task">>
  /\ lastOp.res = "Ok"
  /\ Len(lastOp.trace) = 4

DestroyAt == { i \in 1..Len(fdtrace) : fdtrace[i].sys = "ioctl" /\ fdtrace[i].req = UI_DEV_DESTROY }
CloseAt == { i \in 1..Len(fdtrace) : fdtrace[i].sys = "close" }
WriteAt == { i \in 1..Len(fdtrace) : fdtrace[i].sys = "write" }

\* C2: once the device is dropped, the destroy request was issued exactly once, before
\* the one close of the control descriptor, and no write follows the destroy request;
\* before the drop there is neither; whatever calls, failed ones included, came before.
C2_DestroyOnceBeforeClose ==
  /\ alive => DestroyAt = {} /\ CloseAt = {}
  /\ ~alive => /\ Cardinality(DestroyAt) = 1
               /\ Cardinality(CloseAt) = 1
               /\ \A d \in DestroyAt, c \in CloseAt : d < c
  /\ \A d \in DestroyAt, w \in WriteAt : w < d

C2_Witness ==
  /\ ~alive
  /\ \E w \in WriteAt : ~fdtrace[w].ok
  /\ \E w \in WriteAt : fdtrace[w].ok

\* ceil(d / 2) on the integers
CeilDiv2(d) == (d \div 2) + (d % 2)

\* C6: move_relative(dx, dy) writes REL_X with value ceil(dx / 2) and then REL_Y with
\* value ceil(dy / 2), for every pair of 32-bit deltas.
C6_EmitsCeilOfHalf ==
  lastOp.op = "move_relative" =>
    /\ Len(lastOp.trace) >= 1 =>
         /\ lastOp.trace[1].type = EV_REL
         /\ lastOp.trace[1].code = REL_X
         /\ lastOp.trace[1].value = CeilDiv2(lastOp.args[1])
    /\ Len(lastOp.trace) >= 2 =>
         /\ lastOp.trace[2].type = EV_REL
         /\ lastOp.trace[2].code = REL_Y
         /\ lastOp.trace[2].value = CeilDiv2(lastOp.args[2])

\* the deltas of the last move_relative whose value was written as 0
WrittenAsZero ==
  IF lastOp.op # "move_relative" THEN {}
  ELSE { lastOp.args[i] : i \in { j \in 1..2 : j <= Len(lastOp.trace) /\ lastOp.trace[j].value = 0 } }

\* C7, as claimed: no nonzero delta handed to move_relative is written as 0.
C7_NonzeroNeverWrittenAsZero == WrittenAsZero \subseteq {0}

\* C7, amended: no nonzero delta other than -1 is written as 0.
C7_OnlyMinusOneWrittenAsZero == WrittenAsZero \subseteq {0, -1}

C7_Witness ==
  /\ lastOp.op = "move_relative"
  /\ lastOp.args = <<1, 0>>
  /\ Len(lastOp.trace) = 3
  /\ lastOp.trace[1].value = 1

\* C8: get_position returns an error that says the operation is unsupported; it
\* returns no position and does not end abnormally.
C8_GetPositionReturnsUnsupported ==
  lastOp.op = "get_position" => lastOp.res = "Unsupported"

(***************************************************************************)
(* Properties of the listener, checked under SpecListener, SpecDiscovery   *)
(* and SpecClassify.                                                       *)
(***************************************************************************)
ReadersOf(device, start) ==
  { i \in 1..Len(readers) : readers[i].start = start /\ DeviceOf(readers[i].path) = device }

\* C3: over any sequence of hook, unhook and unhook_all calls the listener's threads
\* are started at most once: no device file has more than one reader thread.
C3_OneReaderPerDevice ==
  \A i \in 1..Len(readers), j \in 1..Len(readers) :
    i # j => DeviceOf(readers[i].path) # DeviceOf(readers[j].path)

\* C4: once unhook(id) has returned Ok, the callback registered under id is not invoked
\* again, however the call interleaves with the dispatcher.
C4_NoInvocationAfterUnhook ==
  [][\A id \in unhooked : received'[id] = received[id]]_vars

C4_Witness ==
  /\ 0 \in unhooked
  /\ Len(received[0]) = 1
  /\ Len(received[1]) = 2

\* C5: unhook(id) for an id that is not in the registry returns NotFound and leaves the
\* registry and the id counter as they were.
C5_UnhookAbsentIsNotFound ==
  [][\A id \in Ids :
       (id \notin DOMAIN callbacks /\ Unhook(id)) =>
         /\ lastOp'.res = "NotFound"
         /\ callbacks' = callbacks
         /\ callback_counter' = callback_counter]_vars

\* the classification as the specification words it
RefButton(code) ==
  CASE code = 272 -> "Left"
    [] code = 273 -> "Right"
    [] code = 274 -> "Middle"
    [] OTHER -> "None"

RefClassify(raw) ==
  CASE raw.type = 1 /\ RefButton(raw.code) # "None" ->
         IF raw.value = 1 THEN Press(RefButton(raw.code)) ELSE Release(RefButton(raw.code))
    [] raw.type = 2 /\ raw.code = 8 -> Scroll(IF raw.value > 0 THEN "Up" ELSE "Down")
    [] raw.type = 2 /\ raw.code = 6 -> Scroll(IF raw.value > 0 THEN "Right" ELSE "Left")
    [] raw.type = 2 /\ raw.code = 0 -> RelativeMove(raw.value, 0)
    [] raw.type = 2 /\ raw.code = 1 -> RelativeMove(0, raw.value)
    [] OTHER -> Discard

\* C9: the dispatcher classifies every raw event as the reference does, every callback
\* invocation hands over the reference's MouseEvent for the raw event being dispatched,
\* and a raw event the reference discards leads to no invocation.
C9_ClassifiesAsReference ==
  /\ [](disp.raw # NoRaw => disp.ev = RefClassify(disp.raw))
  /\ [][received' # received =>
          /\ RefClassify(disp.raw) # Discard
          /\ \E id \in DOMAIN callbacks :
               received' = [received EXCEPT ![id] = Append(@, RefClassify(disp.raw))]]_vars

C9_Witness ==
  /\ disp.raw = Raw(EV_REL, REL_WHEEL, -2)
  /\ received[0] = <<Scroll("Down")>>

\* the device a directory entry leads to
TargetDevice(entry) == DeviceOf(Push(Pop(entry.path), entry.target))

\* C10: when two or more matched links lead to the same device, a listener start that
\* succeeds starts exactly one reader thread for it.
C10_OneReaderForLinkedDevice ==
  is_listening =>
    \A a \in 1..Len(dirEntries), b \in 1..Len(dirEntries) :
      (a # b /\ TargetDevice(dirEntries[a]) = TargetDevice(dirEntries[b])) =>
        Cardinality(ReadersOf(TargetDevice(dirEntries[a]), starts)) = 1

(***************************************************************************)
(* Failures of the virtual device, checked under Spec.                     *)
(***************************************************************************)
WritingOps ==
  {"move_to", "move_relative", "press_button", "release_button", "click_button",
   "scroll_wheel"}

\* the number of writes of each action when none fails
WritesOf(op) ==
  CASE op \in {"move_to", "move_relative"} -> 3
    [] op \in {"press_button", "release_button", "scroll_wheel"} -> 2
    [] op = "click_button" -> 4

\* C11: a public action returns a failure when one of its writes fails (an error or a
\* short count), returns success only when every write of its sequence succeeded, and
\* attempts no write after its first failed one.
C11_NoWriteFailureSwallowed ==
  lastOp.op \in WritingOps =>
    /\ lastOp.res \in {"Ok", "Err"}
    /\ ~AllWritten(lastOp.trace) => lastOp.res = "Err"
    /\ lastOp.res = "Ok" => AllWritten(lastOp.trace) /\ Len(lastOp.trace) = WritesOf(lastOp.op)
    /\ \A i \in 1..Len(lastOp.trace) : lastOp.trace[i].out # "full" => i = Len(lastOp.trace)

C11_Witness ==
  /\ lastOp.op = "click_button"
  /\ Len(lastOp.trace) = 3
  /\ lastOp.trace[3].out = "short"
  /\ lastOp.res = "Err"

\* what the caller gets back: Ok(()), or the io::Error that emit builds
Returned(res) ==
  IF res = "Ok" THEN [ok |-> TRUE]
  ELSE [ok |-> FALSE, kind |-> "Other", message |-> "failed while trying to write to a file"]

\* the press part of a click wrote its key event and its sync
PressDone(trace) == Len(trace) >= 2 /\ trace[1].out = "full" /\ trace[2].out = "full"

\* what click_button returns when its press part fails, and the button is not pressed
PressFailures(button) ==
  { Returned(click_button(Call(outs), button).res) : outs \in Outcomes(2) \ Outcomes(0) }

ReleasesWritten(trace) ==
  { i \in 1..Len(trace) : trace[i].type = EV_KEY /\ trace[i].value = 0 }

\* C12: when the press part of click_button(b) succeeds and the release part fails, the
\* call returns a failure that reports b as still pressed (so not what it returns when
\* b was never pressed), and it writes no second release event for b.
C12_ReleaseFailureReportsPressed ==
  (lastOp.op = "click_button" /\ PressDone(lastOp.trace) /\ ~AllWritten(lastOp.trace)) =>
    /\ lastOp.res = "Err"
    /\ Returned(lastOp.res) \notin PressFailures(lastOp.args[1])
    /\ Cardinality(ReleasesWritten(lastOp.trace)) <= 1

(***************************************************************************)
(* Construction: UInputMouseManager::new (lines 36-132).  The open of      *)
(* /dev/uinput is the only call whose failure is looked at; the sixteen    *)
(* ioctls that follow are issued one after the other, whatever they return. *)
(***************************************************************************)
UI_ABS_SETUP == 1075598596
UI_SET_EVBIT == 1074025828
UI_SET_KEYBIT == 1074025829
UI_SET_RELBIT == 1074025830
UI_SET_ABSBIT == 1074025831
UI_DEV_SETUP == 1079792899
UI_DEV_CREATE == 21761

\* the requests of new, in order: the request and the code or type it carries
NewRequests ==
  << <<UI_SET_EVBIT, EV_KEY>>, <<UI_SET_KEYBIT, BTN_LEFT>>, <<UI_SET_KEYBIT, BTN_RIGHT>>,
     <<UI_SET_KEYBIT, BTN_MIDDLE>>,
     <<UI_SET_EVBIT, EV_ABS>>, <<UI_SET_ABSBIT, ABS_X>>, <<UI_ABS_SETUP, ABS_X>>,
     <<UI_SET_ABSBIT, ABS_Y>>, <<UI_ABS_SETUP, ABS_Y>>,
     <<UI_SET_EVBIT, EV_REL>>, <<UI_SET_RELBIT, REL_X>>, <<UI_SET_RELBIT, REL_Y>>,
     <<UI_SET_RELBIT, REL_WHEEL>>, <<UI_SET_RELBIT, REL_HWHEEL>>,
     <<UI_DEV_SETUP, 0>>, <<UI_DEV_CREATE, 0>> >>

\* new, when the open succeeds or not and the requests at the indices in failed fail
new(openOk, failed) ==
  IF ~openOk
  THEN [res |-> "Err", calls |-> <<[sys |-> "open", ok |-> FALSE]>>]
  ELSE [res |-> "Ok",
        calls |-> <<[sys |-> "open", ok |-> TRUE]>> \o
                  [i \in 1..Len(NewRequests) |->
                     [sys |-> "ioctl", req |-> NewRequests[i][1], arg |-> NewRequests[i][2],
                      ok |-> i \notin failed]]]

\* what the kernel can answer during a construction: no failure, or one failed request
NewFailures == {{}} \cup { {i} : i \in 1..Len(NewRequests) }

\* the state new leaves, the system calls of the construction first on the descriptor
InitNew ==
  /\ \E openOk \in BOOLEAN, failed \in NewFailures :
       LET r == new(openOk, failed)
       IN  /\ (~openOk => failed = {})
           /\ alive = (r.res = "Ok")
           /\ fdtrace = r.calls
           /\ lastOp = [op |-> "new", args |-> <<>>, res |-> r.res, trace |-> <<>>]
  /\ ncalls = 0
  /\ is_listening = FALSE
  /\ callback_counter = 0
  /\ callbacks = EmptyMap
  /\ poisoned = FALSE
  /\ dirEntries = TwoMice
  /\ starts = 0
  /\ readers = <<>>
  /\ disp = [pc |-> "none", raw |-> NoRaw, ev |-> Discard, pending |-> EmptyMap]
  /\ chan = <<>>
  /\ nread = 0
  /\ received = [id \in Ids |-> <<>>]
  /\ unhooked = {}
  /\ hooked = <<>>

\* the virtual device from its construction on
NextNew ==
  \/ MoveTo
  \/ MoveRelative
  \/ GetPosition
  \/ PressButton
  \/ ReleaseButton
  \/ ClickButton
  \/ ScrollWheel
  \/ Drop

SpecNew == InitNew /\ [][NextNew]_vars

(***************************************************************************)
(* Properties of the construction, checked under SpecNew.                  *)
(***************************************************************************)
FailedRequests ==
  { i \in 1..Len(fdtrace) :
      fdtrace[i].sys = "ioctl" /\ fdtrace[i].req # UI_DEV_DESTROY /\ ~fdtrace[i].ok }

\* C13: when a kernel request of the construction fails, new returns a failure and
\* there is no device to use: no action is ever performed on it.
C13_FailedRequestFailsConstruction ==
  FailedRequests # {} => (lastOp.op = "new" /\ lastOp.res = "Err" /\ ~alive)

CreateAt == { i \in 1..Len(fdtrace) : fdtrace[i].sys = "ioctl" /\ fdtrace[i].req = UI_DEV_CREATE }

\* the request that registers a code of the given event type
BitRequest(type) ==
  CASE type = EV_KEY -> UI_SET_KEYBIT
    [] type = EV_REL -> UI_SET_RELBIT
    [] type = EV_ABS -> UI_SET_ABSBIT

SetRequests == {UI_SET_EVBIT, UI_SET_KEYBIT, UI_SET_RELBIT, UI_SET_ABSBIT}

\* a request req with argument arg was issued before the device-create request
IssuedBeforeCreate(req, arg) ==
  \E i \in 1..Len(fdtrace), k \in CreateAt :
    i < k /\ fdtrace[i].sys = "ioctl" /\ fdtrace[i].req = req /\ fdtrace[i].arg = arg

\* C14: every key, relative or absolute event that a public action emits has a type and
\* a code that new registered before the device-create request, and no capability is
\* registered after it.
C14_EmittedIsRegistered ==
  /\ \A i \in 1..Len(lastOp.trace) :
       lastOp.trace[i].type \in {EV_KEY, EV_REL, EV_ABS} =>
         /\ IssuedBeforeCreate(UI_SET_EVBIT, lastOp.trace[i].type)
         /\ IssuedBeforeCreate(BitRequest(lastOp.trace[i].type), lastOp.trace[i].code)
  /\ \A i \in 1..Len(fdtrace), k \in CreateAt :
       (fdtrace[i].sys = "ioctl" /\ fdtrace[i].req \in SetRequests) => i < k

(***************************************************************************)
(* Properties of the registry and of the threads, checked under            *)
(* SpecListener.                                                           *)
(***************************************************************************)
\* C15: the id a successful hook returns is greater than every id an earlier hook
\* returned, is not in the registry when the call starts, was never handed out before
\* (unhook and unhook_all free no id), and maps to the supplied callback in the
\* registry when the call returns.
C15_HookReturnsFreshId ==
  /\ [](\A i \in 1..Len(hooked), j \in 1..Len(hooked) : i < j => hooked[i] < hooked[j])
  /\ [][hooked' # hooked =>
          LET id == hooked'[Len(hooked')]
          IN  /\ lastOp'.op = "hook" /\ lastOp'.res = "Ok" /\ lastOp'.args[2] = id
              /\ id \notin DOMAIN callbacks
              /\ id \notin unhooked
              /\ id \in DOMAIN callbacks'
              /\ callbacks'[id] = lastOp'.args[1]]_vars

C15_Witness ==
  /\ lastOp.op = "hook"
  /\ lastOp.res = "Ok"
  /\ lastOp.args[2] = 1
  /\ hooked = <<0, 1>>
  /\ 0 \in unhooked
  /\ DOMAIN callbacks = {1}

\* C16: in every reachable state, the dispatcher broken by a panicking callback
\* included, unhook_all returns success and leaves the registry empty.
C16_UnhookAllSucceeds ==
  [][UnhookAll => (lastOp'.res = "Ok" /\ callbacks' = EmptyMap)]_vars

(***************************************************************************)
(* Properties of the threads over every filesystem, checked under          *)
(* SpecDiscovery.                                                          *)
(***************************************************************************)
\* C17: once the first hook has started the listener, the dispatcher thread runs (it
\* waits for an event or invokes callbacks) and every reader thread that was started
\* is still there, whatever was discovered and whatever was unhooked since.
C17_WorkersRunForever ==
  /\ [](is_listening => disp.pc \in {"recv", "invoke"})
  /\ [][SubSeq(readers', 1, Len(readers)) = readers]_vars

(***************************************************************************)
(* Absolute moves, checked under Spec.                                     *)
(***************************************************************************)
\* the written value v is the coordinate x itself
IsLiteral(v, x) == v >= 0 /\ x = USize(0, v)

\* C18: a move_to(x, y) whose writes all succeed writes exactly ABS_X with the value x,
\* ABS_Y with the value y, then SYN_REPORT, the values being the coordinates passed.
C18_MoveToWritesLiteralCoordinates ==
  (lastOp.op = "move_to" /\ lastOp.res = "Ok") =>
    /\ Len(lastOp.trace) = 3
    /\ AllWritten(lastOp.trace)
    /\ lastOp.trace[1].type = EV_ABS /\ lastOp.trace[1].code = ABS_X
    /\ IsLiteral(lastOp.trace[1].value, lastOp.args[1])
    /\ lastOp.trace[2].type = EV_ABS /\ lastOp.trace[2].code = ABS_Y
    /\ IsLiteral(lastOp.trace[2].value, lastOp.args[2])
    /\ lastOp.trace[3] = Written(EV_SYN, SYN_REPORT, 0)

(***************************************************************************)
(* Dispatch, checked under SpecListener.                                   *)
(***************************************************************************)
\* the ids whose callback is invoked by the step
InvokedNow == { id \in Ids : received'[id] # received[id] }

\* the lock is held over the iteration: what is still to invoke is in the registry,
\* the registry does not change while callbacks are invoked, and a callback that was
\* invoked for the event is not invoked for it again
DispatchIsAtomic ==
  /\ [](disp.pc = "invoke" =>
          \A id \in DOMAIN disp.pending :
            id \in DOMAIN callbacks /\ disp.pending[id] = callbacks[id])
  /\ [][(disp.pc = "recv" /\ disp'.pc = "invoke") => DOMAIN disp'.pending = DOMAIN callbacks]_vars
  /\ [][disp.pc = "invoke" => callbacks' = callbacks]_vars
  /\ [][\A id \in InvokedNow :
          /\ InvokedNow = {id}
          /\ disp.pc = "invoke"
          /\ id \in DOMAIN disp.pending
          /\ id \notin DOMAIN disp'.pending
          /\ received'[id] = Append(received[id], disp.ev)]_vars

\* C19, as claimed: the dispatcher holds the registry lock over the whole iteration, so
\* no hook, unhook or unhook_all takes effect between two invocations for one event, and
\* the callbacks invoked for the event are exactly the registry contents at one instant,
\* each once.
C19_DispatchInvokesWholeRegistry ==
  /\ DispatchIsAtomic
  /\ [][(disp.pc = "invoke" /\ disp'.pc # "invoke") => DOMAIN disp.pending \subseteq InvokedNow]_vars

\* C19, amended: as claimed, but the iteration ends at a callback that panics, so the
\* callbacks invoked are then only a part of the registry contents, each once.
C19_DispatchInvokesRegistryUntilPanic ==
  /\ DispatchIsAtomic
  /\ [][(disp.pc = "invoke" /\ disp'.pc # "invoke") =>
          \/ DOMAIN disp.pending \subseteq InvokedNow
          \/ \E id \in InvokedNow : disp.pending[id] = "panic" /\ disp'.pc = "dead"]_vars

C19_Witness ==
  /\ disp.pc = "invoke"
  /\ DOMAIN callbacks = {0, 1}
  /\ DOMAIN disp.pending = {1}
  /\ received[0] = <<disp.ev>>
  /\ received[1] = <<>>

(***************************************************************************)
(* The order of delivery, checked under SpecOrder: the listener with every *)
(* record telling its device and the ordinal of its read.                  *)
(***************************************************************************)
NextOrder ==
  \/ \E cb \in CallbackKinds, denied \in SUBSET DevNodes : Hook(cb, denied)
  \/ \E id \in Ids : Unhook(id)
  \/ UnhookAll
  \/ ReaderReadMoved(MaxEvents)
  \/ DispRecv
  \/ DispInvoke
  \/ DispRelease

SpecOrder == Init /\ [][NextOrder]_vars

\* two events come from the same device file
SameDevice(e, f) == (e.dx # 0 /\ f.dx # 0) \/ (e.dy # 0 /\ f.dy # 0)

\* the ordinal of the read that gave the event
ReadOrdinal(e) == e.dx + e.dy

\* C20: a callback is handed the events of one device file in the order in which the
\* file's reader read them.
C20_DeliveredInReadOrder ==
  \A id \in Ids : \A i \in 1..Len(received[id]), j \in 1..Len(received[id]) :
    (i < j /\ SameDevice(received[id][i], received[id][j])) =>
      ReadOrdinal(received[id][i]) < ReadOrdinal(received[id][j])

C20_Witness ==
  \E id \in Ids :
    /\ Len(received[id]) = 2
    /\ SameDevice(received[id][1], received[id][2])
    /\ ReadOrdinal(received[id][1]) = 1
    /\ ReadOrdinal(received[id][2]) = 2

(***************************************************************************)
(* The failed start, checked under SpecDiscovery.                          *)
(***************************************************************************)
HookStep == \E cb \in CallbackKinds, denied \in SUBSET DevNodes : Hook(cb, denied)

\* C21: a hook whose listener start fails returns the error and leaves the instance as
\* it was: the callback is not registered, the id counter is not advanced and the
\* listener is not marked as started; so the next hook runs the discovery again and,
\* when that succeeds, returns the id the failed call would have returned.
C21_FailedStartLeavesInstance ==
  /\ [][(HookStep /\ ~is_listening /\ ~is_listening') =>
          /\ lastOp'.res = "Err"
          /\ callbacks' = callbacks
          /\ callback_counter' = callback_counter
          /\ hooked' = hooked]_vars
  /\ [][(HookStep /\ lastOp'.res = "Err") => ~is_listening']_vars
  /\ [][(HookStep /\ ~is_listening) =>
          /\ starts' = starts + 1
          /\ lastOp'.res = "Ok" => lastOp'.args[2] = callback_counter]_vars

C21_Witness ==
  /\ starts = 2
  /\ lastOp.op = "hook"
  /\ lastOp.res = "Ok"
  /\ lastOp.args[2] = 0
  /\ hooked = <<0>>
  /\ is_listening

(***************************************************************************)
(* Writing and observing, checked under Spec.                              *)
(***************************************************************************)
\* what the dispatcher makes of a written record when a reader hands it over
Observed(w) == Classify(Raw(w.type, w.code, w.value))

DispatcherButtons == {"Left", "Right", "Middle"}

\* C22: the event scroll_wheel(d) writes is classified as Scroll(d); the key events
\* press_button(b) and release_button(b) write are classified as Press(b) and
\* Release(b) for b among Left, Right and Middle, and are discarded for the other five
\* buttons.
C22_WrittenEventsClassifyBack ==
  (/\ lastOp.op \in {"scroll_wheel", "press_button", "release_button"}
   /\ Len(lastOp.trace) >= 1
   /\ lastOp.trace[1].out = "full") =>
    LET arg == lastOp.args[1]
        seen == Observed(lastOp.trace[1])
    IN  CASE lastOp.op = "scroll_wheel" -> seen = Scroll(arg)
          [] lastOp.op = "press_button" ->
               seen = IF arg \in DispatcherButtons THEN Press(arg) ELSE Discard
          [] lastOp.op = "release_button" ->
               seen = IF arg \in DispatcherButtons THEN Release(arg) ELSE Discard

C22_Witness ==
  /\ lastOp.op = "scroll_wheel"
  /\ lastOp.args = <<"Left">>
  /\ lastOp.res = "Ok"
  /\ Observed(lastOp.trace[1]) = Scroll("Left")

(***************************************************************************)
(* Delivery, checked under SpecDelivery: the listener with callbacks that  *)
(* return, all hooked before the first read, records that tell the ordinal *)
(* of their read, and a dispatcher thread that is scheduled whenever it    *)
(* can take a step.                                                        *)
(***************************************************************************)
NextDelivery ==
  \/ nread = 0 /\ \E denied \in SUBSET DevNodes : Hook("ret", denied)
  \/ \E id \in Ids : Unhook(id)
  \/ UnhookAll
  \/ ReaderReadMoved(MaxEvents)
  \/ DispRecv
  \/ DispInvoke
  \/ DispRelease

SpecDelivery ==
  /\ Init
  /\ [][NextDelivery]_vars
  /\ WF_vars(DispRecv)
  /\ WF_vars(DispInvoke)
  /\ WF_vars(DispRelease)

\* the places of the k-th record read among the events handed to callback id
DeliveriesOf(k, id) == { i \in 1..Len(received[id]) : ReadOrdinal(received[id][i]) = k }

\* C23: every record a reader reads is in the end handed, once and no more, to each
\* callback that stays registered from the read to the dispatch, and a reader whose
\* turn it is can always read and forward, whatever the dispatcher does.
C23_EveryReadIsDelivered ==
  /\ [](\A k \in 1..MaxEvents, id \in Ids : Cardinality(DeliveriesOf(k, id)) <= 1)
  /\ []((nread < MaxEvents /\ readers # <<>>) => ENABLED ReaderReadMoved(MaxEvents))
  /\ \A k \in 1..MaxEvents, id \in Ids :
       (nread >= k /\ id \in DOMAIN callbacks) ~>
         (id \notin DOMAIN callbacks \/ DeliveriesOf(k, id) # {})

=============================================================================
